---------------------------- MODULE Spec2Model ----------------------------
(***************************************************************************)
(* A model of the gofile command line client (src/src/main.rs):            *)
(*   - ContentId::parse_content_id, the identifier resolver;               *)
(*   - download / download_all_child_contents, the one-level folder walk;  *)
(*   - download_impl and Md5Filter, the streaming transfer with the        *)
(*     checksum overlay.                                                   *)
(* Strings are sequences of one-character strings, so that parsing is      *)
(* computed on the characters and not assumed: Uuid::parse_str of the uuid *)
(* crate and Url::parse of the url crate (2.5) are modelled by what they   *)
(* do on the characters.                                                   *)
(***************************************************************************)
EXTENDS Integers, Sequences, FiniteSets, TLC

VARIABLES
    input,      \* parse_content_id: content_id_str, as a sequence of pieces
    rpc,        \* parse_content_id: "call" before the call, "done" after it
    parsed,     \* parse_content_id: the Result<ContentId, Error> returned
    token_env,  \* the GOFILE_TOKEN variable: "present", "NotPresent", "NotUnicode"
    content_id, \* download: its ContentId argument
    content,    \* download: the Content the API returned, once it has
    pc,         \* download: where the task stands
    idx,        \* download_all_child_contents: the child the loop is at
    cur,        \* download_impl: its arguments (url, filename)
    stream,     \* download_impl: the bytes of the body not yet read
    buf,        \* futures::io::copy: the bytes read and not yet written
    md5_cx,     \* Md5Filter: the digest accumulator
    writer,     \* Md5Filter: the tokio::fs::File, with its write in flight
    accepted,   \* history: the bytes the file reported as accepted
    digest,     \* download_impl: the digest it returned, once it has
    fs,         \* the destination directory: file name -> file
    result,     \* download: the Result<(), Error> returned, once it has
    started,    \* history: the (url, filename) of every transfer started
    served,     \* history: the body the server sent for each of them
    digests,    \* history: the digest each completed transfer returned
    verified,   \* history: the children whose digest was found equal
    in_flight,  \* history: the calls of download_impl not yet returned
    cause       \* history: what made the transfer in progress fail

rvars == <<input, rpc, parsed>>

dvars == <<token_env, content_id, content, pc, idx, cur, stream, buf, md5_cx,
           writer, accepted, digest, fs, result, started, served, digests,
           verified, in_flight, cause>>

vars == <<rvars, dvars>>

(***************************************************************************)
(*                       Bounds of the model                               *)
(***************************************************************************)
\* The number of "/..." pieces appended to the head of an input string.
MaxTail == 2
\* The number of children of a folder.
MaxChildren == 2
\* The number of bytes of a response body.
MaxBody == 2

(***************************************************************************)
(*                Strings: characters and helpers                          *)
(* The strings of the model are over the characters a-z, A-Z, 0-9 and      *)
(*   - . : / \ ? # @ { } and the space;                                    *)
(* the parsers below are those of the uuid and url crates on such strings  *)
(* (no "%", no "[", no "|", no control or non-ASCII character, no "xn--"   *)
(* label).                                                                 *)
(***************************************************************************)
Digit == {"0","1","2","3","4","5","6","7","8","9"}
LowerStr == <<"a","b","c","d","e","f","g","h","i","j","k","l","m","n","o",
              "p","q","r","s","t","u","v","w","x","y","z">>
UpperStr == <<"A","B","C","D","E","F","G","H","I","J","K","L","M","N","O",
              "P","Q","R","S","T","U","V","W","X","Y","Z">>
LowerAlpha == {LowerStr[i] : i \in 1..Len(LowerStr)}
UpperAlpha == {UpperStr[i] : i \in 1..Len(UpperStr)}
Alpha == LowerAlpha \cup UpperAlpha
HexStr == <<"0","1","2","3","4","5","6","7","8","9","a","b","c","d","e","f">>
HexDigit == Digit \cup {"a","b","c","d","e","f"} \cup {"A","B","C","D","E","F"}

None == [tag |-> "None"]

\* char::to_ascii_lowercase
ToLower(c) ==
    IF c \in UpperAlpha
    THEN LowerStr[CHOOSE i \in 1..Len(UpperStr) : UpperStr[i] = c]
    ELSE c

LowerCase(s) == [i \in 1..Len(s) |-> ToLower(s[i])]

\* The value of a digit in a radix up to 16.
DigitVal(c) == (CHOOSE i \in 1..Len(HexStr) : HexStr[i] = ToLower(c)) - 1

\* The position of the first character of s that is in set, or 0.
FirstIn(s, set) ==
    LET at == {i \in 1..Len(s) : s[i] \in set}
    IN  IF at = {} THEN 0 ELSE CHOOSE i \in at : \A j \in at : i <= j

\* The position of the last character of s that is in set, or 0.
LastIn(s, set) ==
    LET at == {i \in 1..Len(s) : s[i] \in set}
    IN  IF at = {} THEN 0 ELSE CHOOSE i \in at : \A j \in at : i >= j

\* s up to the first character in set, and s from that character on.
Before(s, set) ==
    IF FirstIn(s, set) = 0 THEN s ELSE SubSeq(s, 1, FirstIn(s, set) - 1)
From(s, set) ==
    IF FirstIn(s, set) = 0 THEN <<>> ELSE SubSeq(s, FirstIn(s, set), Len(s))

\* s without the characters of set at its start.
SkipLeading(s, set) ==
    LET other == {i \in 1..Len(s) : s[i] \notin set}
    IN  IF other = {} THEN <<>>
        ELSE SubSeq(s, CHOOSE i \in other : \A j \in other : i <= j, Len(s))

\* s without the spaces at its two ends (the parser's trimming of C0
\* control characters and spaces).
Trim(s) ==
    LET other == {i \in 1..Len(s) : s[i] # " "}
    IN  IF other = {} THEN <<>>
        ELSE SubSeq(s, CHOOSE i \in other : \A j \in other : i <= j,
                       CHOOSE i \in other : \A j \in other : i >= j)

\* str::split on the characters of seps: always at least one piece, empty
\* pieces kept.
RECURSIVE SplitOn(_, _)
SplitOn(s, seps) ==
    LET i == FirstIn(s, seps)
    IN  IF i = 0 THEN <<s>>
        ELSE <<SubSeq(s, 1, i - 1)>> \o SplitOn(SubSeq(s, i + 1, Len(s)), seps)

\* The percent-encoding of a character.
Pct(c) ==
    CASE c = " " -> <<"%","2","0">>
      [] c = "#" -> <<"%","2","3">>
      [] c = "/" -> <<"%","2","F">>
      [] c = ":" -> <<"%","3","A">>
      [] c = "?" -> <<"%","3","F">>
      [] c = "@" -> <<"%","4","0">>
      [] c = "\\" -> <<"%","5","C">>
      [] c = "{" -> <<"%","7","B">>
      [] c = "}" -> <<"%","7","D">>
      [] OTHER -> <<c>>

\* The percent-encode sets of the url crate, on the characters of the model.
FRAGMENT == {" "}
QUERY == {" ", "#"}
PATH == {" ", "#", "?", "{", "}"}
USERINFO == PATH \cup {"/", ":", "@", "\\"}

\* utf8_percent_encode(s, set)
RECURSIVE Encode(_, _)
Encode(s, set) ==
    IF Len(s) = 0 THEN <<>>
    ELSE IF Len(s) = 1 THEN (IF s[1] \in set THEN Pct(s[1]) ELSE s)
    ELSE Encode(SubSeq(s, 1, Len(s) \div 2), set)
            \o Encode(SubSeq(s, (Len(s) \div 2) + 1, Len(s)), set)

(***************************************************************************)
(*                        uuid::Uuid::parse_str                            *)
(***************************************************************************)
\* The 32 hexadecimal digits of a hyphenated identifier (8-4-4-4-12), or
\* <<>> when s is not one.
ParseHyphenated(s) ==
    IF /\ Len(s) = 36
       /\ \A i \in 1..36 :
            IF i \in {9, 14, 19, 24} THEN s[i] = "-" ELSE s[i] \in HexDigit
    THEN SubSeq(s, 1, 8) \o SubSeq(s, 10, 13) \o SubSeq(s, 15, 18)
            \o SubSeq(s, 20, 23) \o SubSeq(s, 25, 36)
    ELSE <<>>

\* Uuid::parse_str: the simple (32 digits), hyphenated (36), braced (38) and
\* urn:uuid: (45) forms, in either case; the identifier is the value of its
\* 32 digits.
Uuid_parse_str(s) ==
    LET digits ==
          CASE Len(s) = 32 ->
                 IF \A i \in 1..32 : s[i] \in HexDigit THEN s ELSE <<>>
            [] Len(s) = 36 -> ParseHyphenated(s)
            [] Len(s) = 38 ->
                 IF s[1] = "{" /\ s[38] = "}"
                 THEN ParseHyphenated(SubSeq(s, 2, 37)) ELSE <<>>
            [] Len(s) = 45 ->
                 IF SubSeq(s, 1, 9) = <<"u","r","n",":","u","u","i","d",":">>
                 THEN ParseHyphenated(SubSeq(s, 10, 45)) ELSE <<>>
            [] OTHER -> <<>>
    IN  [ok |-> digits # <<>>, uuid |-> LowerCase(digits)]

(***************************************************************************)
(*                          url::Url::parse                                *)
(***************************************************************************)
SchemeChar == Alpha \cup Digit \cup {"+", "-", "."}

SpecialSchemes == {<<"h","t","t","p">>, <<"h","t","t","p","s">>,
                   <<"f","t","p">>, <<"w","s">>, <<"w","s","s">>,
                   <<"f","i","l","e">>}

FileScheme == <<"f","i","l","e">>

NoPort == 0 - 1

\* url::parser::default_port
DefaultPort(scheme) ==
    CASE scheme \in {<<"h","t","t","p">>, <<"w","s">>} -> 80
      [] scheme \in {<<"h","t","t","p","s">>, <<"w","s","s">>} -> 443
      [] scheme = <<"f","t","p">> -> 21
      [] OTHER -> NoPort

\* The forbidden host code points among the characters of the model.
ForbiddenHost == {" ", "#", "/", ":", "?", "@", "\\"}

\* ---- IPv4 hosts ----
\* A 32-bit number as four bytes, the first the most significant, times
\* radix plus digit; over is set when the result does not fit.
MulAdd(n, radix, digit) ==
    LET t4 == n.b[4] * radix + digit
        t3 == n.b[3] * radix + (t4 \div 256)
        t2 == n.b[2] * radix + (t3 \div 256)
        t1 == n.b[1] * radix + (t2 \div 256)
    IN  [b |-> <<t1 % 256, t2 % 256, t3 % 256, t4 % 256>>,
         over |-> n.over \/ (t1 \div 256) > 0]

\* u32::from_str_radix, from the number read so far.
RECURSIVE FromStrRadix(_, _, _)
FromStrRadix(n, s, radix) ==
    IF s = <<>> THEN n
    ELSE FromStrRadix(MulAdd(n, radix, DigitVal(Head(s))), Tail(s), radix)

Zero32 == [b |-> <<0, 0, 0, 0>>, over |-> FALSE]

\* The number written by digits in a radix: ok is FALSE for Err(()), when a
\* character is no digit of the radix, and over is TRUE for Ok(None).
Ipv4NumberOf(digits, radix) ==
    IF digits = <<>> THEN [ok |-> TRUE, n |-> Zero32]
    ELSE IF \E i \in 1..Len(digits) :
                digits[i] \notin HexDigit \/ DigitVal(digits[i]) >= radix
    THEN [ok |-> FALSE, n |-> Zero32]
    ELSE [ok |-> TRUE, n |-> FromStrRadix(Zero32, digits, radix)]

\* url::host::parse_ipv4number: hexadecimal after "0x", octal after "0",
\* else decimal.
parse_ipv4number(part) ==
    IF part = <<>> THEN [ok |-> FALSE, n |-> Zero32]
    ELSE IF Len(part) >= 2 /\ part[1] = "0" /\ part[2] \in {"x", "X"}
    THEN Ipv4NumberOf(SubSeq(part, 3, Len(part)), 16)
    ELSE IF Len(part) >= 2 /\ part[1] = "0"
    THEN Ipv4NumberOf(Tail(part), 8)
    ELSE Ipv4NumberOf(part, 10)

\* The last label of a host, the one before a final dot.
LastLabel(parts) ==
    IF parts[Len(parts)] = <<>> /\ Len(parts) >= 2
    THEN parts[Len(parts) - 1] ELSE parts[Len(parts)]

IsNumberLabel(last) ==
    /\ last # <<>>
    /\ \/ \A i \in 1..Len(last) : last[i] \in Digit
       \/ parse_ipv4number(last).ok

\* url::host::ends_in_a_number
ends_in_a_number(host) == IsNumberLabel(LastLabel(SplitOn(host, {"."})))

\* A number below 256 in decimal.
Dec(n) ==
    IF n >= 100 THEN <<HexStr[(n \div 100) + 1],
                       HexStr[((n \div 10) % 10) + 1], HexStr[(n % 10) + 1]>>
    ELSE IF n >= 10 THEN <<HexStr[(n \div 10) + 1], HexStr[(n % 10) + 1]>>
    ELSE <<HexStr[n + 1]>>

\* The last number fills the bytes the others leave; the others are below
\* 256.
Fits(nums, i) ==
    IF i = Len(nums) THEN \A j \in 1..(Len(nums) - 1) : nums[i].n.b[j] = 0
    ELSE \A j \in 1..3 : nums[i].n.b[j] = 0

Octet(nums, j) ==
    IF j < Len(nums) THEN nums[j].n.b[4] ELSE nums[Len(nums)].n.b[j]

\* The address of the numbers of the parts, in dotted decimal.
Ipv4OfNumbers(nums) ==
    IF \/ Len(nums) > 4
       \/ Len(nums) = 0
       \/ \E i \in 1..Len(nums) :
            ~nums[i].ok \/ nums[i].n.over \/ ~Fits(nums, i)
    THEN [ok |-> FALSE, host |-> <<>>]
    ELSE [ok |-> TRUE,
          host |-> Dec(Octet(nums, 1)) \o <<".">> \o Dec(Octet(nums, 2))
                      \o <<".">> \o Dec(Octet(nums, 3)) \o <<".">>
                      \o Dec(Octet(nums, 4))]

DropLastEmpty(parts) ==
    IF parts[Len(parts)] = <<>> THEN SubSeq(parts, 1, Len(parts) - 1)
    ELSE parts

ParseNumbers(parts) == [i \in 1..Len(parts) |-> parse_ipv4number(parts[i])]

\* url::host::parse_ipv4addr
parse_ipv4addr(host) ==
    Ipv4OfNumbers(ParseNumbers(DropLastEmpty(SplitOn(host, {"."}))))

\* The host of a lower-cased domain: no forbidden character, and an IPv4
\* address when it ends in a number.
DomainToHost(domain) ==
    IF domain = <<>> THEN [ok |-> FALSE, host |-> <<>>]
    ELSE IF \E i \in 1..Len(domain) : domain[i] \in ForbiddenHost
    THEN [ok |-> FALSE, host |-> <<>>]
    ELSE IF ends_in_a_number(domain) THEN parse_ipv4addr(domain)
    ELSE [ok |-> TRUE, host |-> domain]

\* url::Host::parse, the host of a special scheme.
Host_parse(s) == DomainToHost(LowerCase(s))

\* url::Host::parse_opaque, the host of another scheme: kept as written.
Host_parse_opaque(s) ==
    IF \E i \in 1..Len(s) : s[i] \in ForbiddenHost
    THEN [ok |-> FALSE, host |-> <<>>]
    ELSE [ok |-> TRUE, host |-> s]

\* ---- authority ----
\* The characters that end the authority.
AuthorityEnd(special) ==
    IF special THEN {"/", "?", "#", "\\"} ELSE {"/", "?", "#"}

\* The user name and the password of the characters before the "@": the
\* first ":" parts them.
SplitUserinfo(info, rest) ==
    LET colon == FirstIn(info, {":"})
    IN  [ok |-> TRUE,
         username |-> Encode(IF colon = 0 THEN info
                             ELSE SubSeq(info, 1, colon - 1), USERINFO),
         password |-> Encode(IF colon = 0 THEN <<>>
                             ELSE SubSeq(info, colon + 1, Len(info)),
                             USERINFO),
         rest |-> rest]

\* at is the position of the last "@" of the authority, or 0.
UserinfoAt(s, at, special) ==
    IF at = 0
    THEN [ok |-> TRUE, username |-> <<>>, password |-> <<>>, rest |-> s]
    ELSE IF at = 1
    THEN [ok |-> Len(s) = 1 \/ s[2] \notin AuthorityEnd(special),
          username |-> <<>>, password |-> <<>>, rest |-> Tail(s)]
    ELSE SplitUserinfo(SubSeq(s, 1, at - 1), SubSeq(s, at + 1, Len(s)))

\* Parser::parse_userinfo
parse_userinfo(s, special) ==
    UserinfoAt(s, LastIn(Before(s, AuthorityEnd(special)), {"@"}), special)

\* The digits of a port, read as a number that saturates above 65535.
RECURSIVE PortValue(_, _)
PortValue(n, digits) ==
    IF digits = <<>> THEN n
    ELSE PortValue(IF n * 10 + DigitVal(Head(digits)) > 65535 THEN 65536
                   ELSE n * 10 + DigitVal(Head(digits)),
                   Tail(digits))

\* The port written by the digits at the start of s.
PortOf(s, digits, scheme) ==
    LET rest == SubSeq(s, Len(digits) + 1, Len(s))
    IN  IF PortValue(0, digits) > 65535
        THEN [ok |-> FALSE, port |-> NoPort, rest |-> rest]
        ELSE IF rest # <<>> /\ rest[1] \notin {"/", "\\", "?", "#"}
        THEN [ok |-> FALSE, port |-> NoPort, rest |-> rest]
        ELSE [ok |-> TRUE,
              port |-> IF \/ digits = <<>>
                          \/ PortValue(0, digits) = DefaultPort(scheme)
                       THEN NoPort ELSE PortValue(0, digits),
              rest |-> rest]

\* Parser::parse_port, on what follows the ":" after the host.
parse_port(s, scheme) ==
    PortOf(s, SubSeq(s, 1, Len(s) - Len(SkipLeading(s, Digit))), scheme)

\* The characters that end the host.
HostEnd(special) ==
    IF special THEN {":", "/", "?", "#", "\\"} ELSE {":", "/", "?", "#"}

\* Parser::parse_host
parse_host(host_str, special) ==
    IF special THEN Host_parse(host_str) ELSE Host_parse_opaque(host_str)

WithHost(host, port) ==
    [ok |-> port.ok, host |-> host, port |-> port.port, rest |-> port.rest]

\* The host is read; rest is the input after it.
HostThenPort(host, rest, scheme) ==
    IF ~host.ok
    THEN [ok |-> FALSE, host |-> <<>>, port |-> NoPort, rest |-> <<>>]
    ELSE IF rest # <<>> /\ rest[1] = ":"
    THEN IF host.host = <<>>
         THEN [ok |-> FALSE, host |-> <<>>, port |-> NoPort, rest |-> <<>>]
         ELSE WithHost(host.host, parse_port(Tail(rest), scheme))
    ELSE [ok |-> TRUE, host |-> host.host, port |-> NoPort, rest |-> rest]

\* Parser::parse_host_and_port (not for file); a special scheme has a
\* host that is not empty.
parse_host_and_port(s, scheme, special) ==
    HostThenPort(parse_host(Before(s, HostEnd(special)), special),
                 From(s, HostEnd(special)), scheme)

\* ---- path ----
\* is_windows_drive_letter with ":" (the model has no "|").
IsDriveLetter(seg) == Len(seg) = 2 /\ seg[1] \in Alpha /\ seg[2] = ":"

\* path_starts_with_windows_drive_letter
PathStartsWithDriveLetter(s) ==
    /\ Len(s) >= 3
    /\ s[1] \in {"/", "\\", "?", "#"}
    /\ s[2] \in Alpha
    /\ s[3] = ":"
    /\ (Len(s) = 3 \/ s[4] \in {"/", "\\", "?", "#"})

EndsWithSlash(p) == p # <<>> /\ p[Len(p)] = "/"

\* Parser::last_slash_can_be_removed, on the path so far.
last_slash_can_be_removed(p) ==
    LET k == LastIn(SubSeq(p, 1, Len(p) - 1), {"/"})
    IN  k # 0 /\ ~PathStartsWithDriveLetter(SubSeq(p, k, Len(p)))

\* Parser::pop_path
pop_path(p, file) ==
    LET k == LastIn(p, {"/"})
    IN  IF p = <<>> \/ k = 0 THEN p
        ELSE IF file /\ IsDriveLetter(SubSeq(p, k + 1, Len(p))) THEN p
        ELSE SubSeq(p, 1, k)

\* Parser::shorten_path
shorten_path(p, file) ==
    IF p = <<>> THEN p
    ELSE IF file /\ IsDriveLetter(p) THEN p
    ELSE pop_path(p, file)

\* The slash that ended the segment stays at the end of the path.
CloseSegment(p, slash) ==
    IF slash /\ ~EndsWithSlash(p) THEN p \o <<"/">> ELSE p

\* A ".." segment: the path loses its last segment.
DotDot(p, slash, file) ==
    CloseSegment(shorten_path(IF /\ EndsWithSlash(p)
                                 /\ last_slash_can_be_removed(p)
                              THEN SubSeq(p, 1, Len(p) - 1) ELSE p,
                              file),
                 slash)

\* One turn of the outer loop of Parser::parse_path: the path so far, the
\* segment read (percent-encoded) and whether a slash ended it. drive tells
\* that a drive letter was read as the first segment of a file URL.
PathStep(st, seg, slash, file) ==
    IF seg = <<".", ".">>
    THEN [st EXCEPT !.path = DotDot(@, slash, file)]
    ELSE IF seg = <<".">>
    THEN [st EXCEPT !.path = IF EndsWithSlash(@) THEN @ ELSE @ \o <<"/">>]
    ELSE [path |-> st.path \o seg \o (IF slash THEN <<"/">> ELSE <<>>),
          drive |-> \/ st.drive
                    \/ file /\ st.path = <<"/">> /\ IsDriveLetter(seg)]

\* The outer loop of Parser::parse_path, over the pieces between slashes.
RECURSIVE PathLoop(_, _, _)
PathLoop(st, pieces, file) ==
    IF Len(pieces) > 1
    THEN PathLoop(PathStep(st, Encode(Head(pieces), PATH), TRUE, file),
                  Tail(pieces), file)
    ELSE PathStep(st, Encode(Head(pieces), PATH), FALSE, file)

\* The slashes at the start of the path of a file URL are reduced to one.
FilePathTrim(st, file) ==
    IF file THEN [st EXCEPT !.path = <<"/">> \o SkipLeading(@, {"/"})]
    ELSE st

\* Parser::parse_path: the path, from the path so far and the input up to
\* the query or the fragment.
parse_path(prefix, s, special, file) ==
    FilePathTrim(PathLoop([path |-> prefix, drive |-> FALSE],
                          SplitOn(Before(s, {"?", "#"}),
                                  IF special THEN {"/", "\\"} ELSE {"/"}),
                          file),
                 file)

\* Parser::parse_path_start
parse_path_start(s, special, file) ==
    IF special THEN
        parse_path(<<"/">>,
                   IF s # <<>> /\ s[1] \in {"/", "\\"} THEN Tail(s) ELSE s,
                   special, file)
    ELSE IF s # <<>> /\ s[1] \in {"?", "#"}
    THEN [path |-> <<>>, drive |-> FALSE]
    ELSE parse_path(IF s # <<>> /\ s[1] # "/" THEN <<"/">> ELSE <<>>,
                    s, special, file)

\* ---- query and fragment ----
Absent == [some |-> FALSE, val |-> <<>>]
Present(v) == [some |-> TRUE, val |-> v]

\* Parser::parse_query_and_fragment, on the input from the path on.
QueryOf(s) ==
    LET t == From(s, {"?", "#"})
    IN  IF t # <<>> /\ t[1] = "?"
        THEN Present(Encode(Before(Tail(t), {"#"}), QUERY))
        ELSE Absent

FragmentOf(s) ==
    LET t == From(s, {"#"})
    IN  IF t # <<>> THEN Present(Encode(Tail(t), FRAGMENT)) ELSE Absent

\* ---- the whole URL ----
ParseFail == [ok |-> FALSE, url |-> None]

\* The URL: authority tells that "//" follows the scheme, port is NoPort
\* for none or the default one, s is the input from the path on.
MakeUrl(scheme, authority, username, password, host, port, path, s) ==
    [ok |-> TRUE,
     url |-> [scheme |-> scheme, authority |-> authority,
              username |-> username, password |-> password, host |-> host,
              port |-> port, path |-> path, query |-> QueryOf(s),
              fragment |-> FragmentOf(s)]]

\* The authority is read: ui the user name and password, hp the host and
\* port.
AfterHost(ui, hp, scheme, special) ==
    IF ~hp.ok THEN ParseFail
    ELSE IF hp.host = <<>> /\ (ui.username # <<>> \/ ui.password # <<>>)
    THEN ParseFail
    ELSE MakeUrl(scheme, TRUE, ui.username, ui.password, hp.host, hp.port,
                 parse_path_start(hp.rest, special, FALSE).path, hp.rest)

AfterUserinfo(ui, scheme, special) ==
    IF ~ui.ok THEN ParseFail
    ELSE AfterHost(ui, parse_host_and_port(ui.rest, scheme, special),
                   scheme, special)

\* Parser::after_double_slash: authority, then path, query and fragment.
after_double_slash(s, scheme, special) ==
    AfterUserinfo(parse_userinfo(s, special), scheme, special)

\* Parser::parse_non_special
parse_non_special(s, scheme) ==
    IF Len(s) >= 2 /\ s[1] = "/" /\ s[2] = "/"
    THEN after_double_slash(SubSeq(s, 3, Len(s)), scheme, FALSE)
    ELSE IF s # <<>> /\ s[1] = "/"
    THEN MakeUrl(scheme, FALSE, <<>>, <<>>, <<>>, NoPort,
                 parse_path(<<"/">>, Tail(s), FALSE, FALSE).path, s)
    ELSE \* parse_cannot_be_a_base_path
         MakeUrl(scheme, FALSE, <<>>, <<>>, <<>>, NoPort,
                 Before(s, {"?", "#"}), s)

\* A file URL without a host, its path read from s.
FileNoHost(prefix, s) ==
    MakeUrl(FileScheme, TRUE, <<>>, <<>>, <<>>, NoPort,
            parse_path(prefix, s, TRUE, TRUE).path, s)

\* A file URL with a host; a drive letter at the start of the path removes
\* the host.
FileWithHost(host, path, rest) ==
    MakeUrl(FileScheme, TRUE, <<>>, <<>>,
            IF path.drive THEN <<>> ELSE host, NoPort, path.path, rest)

FileHostParsed(host, rest) ==
    IF ~host.ok THEN ParseFail
    ELSE IF host.host = <<"l","o","c","a","l","h","o","s","t">>
    THEN FileNoHost(<<"/">>, rest)
    ELSE FileWithHost(host.host, parse_path_start(rest, TRUE, TRUE), rest)

\* Parser::parse_file_host, then the path: after is the input after the
\* two slashes, host_str its start up to the path, rest what follows. A
\* drive letter is no host and is left to the path.
parse_file_host(after, host_str, rest) ==
    IF IsDriveLetter(host_str) THEN FileNoHost(<<"/">>, after)
    ELSE IF host_str = <<>> THEN FileNoHost(<<"/">>, rest)
    ELSE FileHostParsed(Host_parse(host_str), rest)

\* Parser::parse_file (without a base URL)
parse_file(s) ==
    IF Len(s) >= 2 /\ s[1] \in {"/", "\\"} /\ s[2] \in {"/", "\\"}
    THEN parse_file_host(SubSeq(s, 3, Len(s)),
                         Before(SubSeq(s, 3, Len(s)), {"/", "\\", "?", "#"}),
                         From(SubSeq(s, 3, Len(s)), {"/", "\\", "?", "#"}))
    ELSE IF s # <<>> /\ s[1] \in {"/", "\\"}
    THEN FileNoHost(<<>>, s)
    ELSE FileNoHost(<<"/">>, s)

\* Parser::parse_with_scheme: the scheme decides.
parse_with_scheme(scheme, rest) ==
    IF scheme = FileScheme THEN parse_file(rest)
    ELSE IF scheme \in SpecialSchemes
    THEN after_double_slash(SkipLeading(rest, {"/", "\\"}), scheme, TRUE)
    ELSE parse_non_special(rest, scheme)

\* Parser::parse_scheme: k is the position after the scheme characters at
\* the start of s; the character there must be the ":".
parse_scheme(s, k) ==
    IF k > Len(s) \/ s[k] # ":" THEN ParseFail
    ELSE parse_with_scheme(LowerCase(SubSeq(s, 1, k - 1)),
                           SubSeq(s, k + 1, Len(s)))

\* Parser::parse_url, on the trimmed input: a scheme is required, there is
\* no base URL.
parse_url(s) ==
    IF s = <<>> \/ s[1] \notin Alpha THEN ParseFail
    ELSE parse_scheme(s, Len(s) - Len(SkipLeading(s, SchemeChar)) + 1)

\* Url::parse
Url_parse(str) == parse_url(Trim(str))

\* Url::path_segments: None when the path does not start with "/".
path_segments(url) ==
    IF url.path # <<>> /\ Head(url.path) = "/"
    THEN [some |-> TRUE, segs |-> SplitOn(Tail(url.path), {"/"})]
    ELSE [some |-> FALSE, segs |-> <<>>]

(***************************************************************************)
(*                        The input strings                                *)
(***************************************************************************)
\* The characters of each piece an input string is built from.
Chars(piece) ==
    CASE piece = "" -> <<>>
      [] piece = "d290f1ee-6c54-4b01-90e6-d701748f0851" ->
            <<"d","2","9","0","f","1","e","e","-","6","c","5","4","-",
              "4","b","0","1","-","9","0","e","6","-","d","7","0","1",
              "7","4","8","f","0","8","5","1">>
      [] piece = "d290f1ee6c544b0190e6d701748f0851" ->
            <<"d","2","9","0","f","1","e","e","6","c","5","4","4","b",
              "0","1","9","0","e","6","d","7","0","1","7","4","8","f",
              "0","8","5","1">>
      [] piece = "urn:uuid:d290f1ee-6c54-4b01-90e6-d701748f0851" ->
            <<"u","r","n",":","u","u","i","d",":","d","2","9","0","f",
              "1","e","e","-","6","c","5","4","-","4","b","0","1","-",
              "9","0","e","6","-","d","7","0","1","7","4","8","f","0",
              "8","5","1">>
      [] piece = "D290F1EE-6C54-4B01-90E6-D701748F0851" ->
            <<"D","2","9","0","F","1","E","E","-","6","C","5","4","-",
              "4","B","0","1","-","9","0","E","6","-","D","7","0","1",
              "7","4","8","F","0","8","5","1">>
      [] piece = "{d290f1ee-6c54-4b01-90e6-d701748f0851}" ->
            <<"{","d","2","9","0","f","1","e","e","-","6","c","5","4",
              "-","4","b","0","1","-","9","0","e","6","-","d","7","0",
              "1","7","4","8","f","0","8","5","1","}">>
      [] piece = "abc" -> <<"a","b","c">>
      [] piece = "https://gofile.io" ->
            <<"h","t","t","p","s",":","/","/","g","o","f","i","l","e",
              ".","i","o">>
      [] piece = "HTTPS://GOFILE.IO" ->
            <<"H","T","T","P","S",":","/","/","G","O","F","I","L","E",
              ".","I","O">>
      [] piece = "https://gofile.io:80" ->
            <<"h","t","t","p","s",":","/","/","g","o","f","i","l","e",
              ".","i","o",":","8","0">>
      [] piece = "https://gofile.io:443" ->
            <<"h","t","t","p","s",":","/","/","g","o","f","i","l","e",
              ".","i","o",":","4","4","3">>
      [] piece = "https://user@gofile.io" ->
            <<"h","t","t","p","s",":","/","/","u","s","e","r","@","g",
              "o","f","i","l","e",".","i","o">>
      [] piece = "https://1" -> <<"h","t","t","p","s",":","/","/","1">>
      [] piece = "https://1.2.3.4.5" ->
            <<"h","t","t","p","s",":","/","/","1",".","2",".","3",".",
              "4",".","5">>
      [] piece = "https:" -> <<"h","t","t","p","s",":">>
      [] piece = "file:" -> <<"f","i","l","e",":">>
      [] piece = "file://host" ->
            <<"f","i","l","e",":","/","/","h","o","s","t">>
      [] piece = "foo:" -> <<"f","o","o",":">>
      [] piece = "foo://h" -> <<"f","o","o",":","/","/","h">>
      [] piece = "file:c:" -> <<"f","i","l","e",":","c",":">>
      [] piece = "foo://" -> <<"f","o","o",":","/","/">>
      [] piece = "urn:uuid:" -> <<"u","r","n",":","u","u","i","d",":">>
      [] piece = " https://gofile.io" ->
            <<" ","h","t","t","p","s",":","/","/","g","o","f","i","l",
              "e",".","i","o">>
      [] piece = "/." -> <<"/",".">>
      [] piece = "/d" -> <<"/","d">>
      [] piece = "/download" -> <<"/","d","o","w","n","l","o","a","d">>
      [] piece = "/d290f1ee-6c54-4b01-90e6-d701748f0851" ->
            <<"/","d","2","9","0","f","1","e","e","-","6","c","5","4",
              "-","4","b","0","1","-","9","0","e","6","-","d","7","0",
              "1","7","4","8","f","0","8","5","1">>
      [] piece = "/abc" -> <<"/","a","b","c">>
      [] piece = "/" -> <<"/">>
      [] piece = "/.." -> <<"/",".",".">>
      [] piece = "?q#f" -> <<"?","q","#","f">>
      [] piece = "/{d290f1ee-6c54-4b01-90e6-d701748f0851}/abc" ->
            <<"/","{","d","2","9","0","f","1","e","e","-","6","c","5",
              "4","-","4","b","0","1","-","9","0","e","6","-","d","7",
              "0","1","7","4","8","f","0","8","5","1","}","/","a","b",
              "c">>
      [] piece = "\\abc" -> <<"\\","a","b","c">>
      [] piece = "/D290F1EE-6C54-4B01-90E6-D701748F0851/abc" ->
            <<"/","D","2","9","0","F","1","E","E","-","6","C","5","4",
              "-","4","B","0","1","-","9","0","E","6","-","D","7","0",
              "1","7","4","8","F","0","8","5","1","/","a","b","c">>
      [] piece = " " -> <<" ">>

\* How an input string starts.
Heads == {"", "d290f1ee-6c54-4b01-90e6-d701748f0851",
          "d290f1ee6c544b0190e6d701748f0851",
          "urn:uuid:d290f1ee-6c54-4b01-90e6-d701748f0851",
          "D290F1EE-6C54-4B01-90E6-D701748F0851",
          "{d290f1ee-6c54-4b01-90e6-d701748f0851}", "abc",
          "https://gofile.io", "HTTPS://GOFILE.IO", "https://gofile.io:80",
          "https://gofile.io:443", "https://user@gofile.io", "https://1",
          "https://1.2.3.4.5", "https:", "file:", "file://host",
          "file:c:", "foo:", "foo://", "foo://h", "urn:uuid:",
          " https://gofile.io"}

\* What may follow, any number of times up to MaxTail.
Tails == {"/d", "/download", "/d290f1ee-6c54-4b01-90e6-d701748f0851",
          "/abc", "/", "/..", "/."}

\* How an input string ends.
Lasts == {"", "?q#f", "/{d290f1ee-6c54-4b01-90e6-d701748f0851}/abc", "\\abc",
          "/D290F1EE-6C54-4B01-90E6-D701748F0851/abc", " "}

RECURSIVE Flatten(_)
Flatten(pieces) ==
    IF pieces = <<>> THEN <<>>
    ELSE Chars(Head(pieces)) \o Flatten(Tail(pieces))

\* The input strings of the model: a head, up to MaxTail tails and a last
\* piece.
Inputs ==
    UNION {{<<h>> \o t \o <<l>> : t \in [1..n -> Tails]} :
              h \in Heads, l \in Lasts, n \in 0..MaxTail}

(***************************************************************************)
(*                   ContentId::parse_content_id                           *)
(***************************************************************************)
Ok(v) == [tag |-> "Ok", val |-> v]
Err(e) == [tag |-> "Err", err |-> e]

ContentId_Uuid(uuid) == [variant |-> "Uuid", uuid |-> uuid]
ContentId_Code(code) == [variant |-> "Code", code |-> code]
ContentId_DownloadUrl(url, filename) ==
    [variant |-> "DownloadUrl", url |-> url, filename |-> filename]

Error_InvalidUrl(url) == [kind |-> "InvalidUrl", url |-> url]
Error_InvalidContentUrl(url) == [kind |-> "InvalidContentUrl", url |-> url]
Error_InvalidDownloadUrl(url) == [kind |-> "InvalidDownloadUrl", url |-> url]

\* A slip: the code is taken from the second segment whatever follows it.
ParseContentUrlTruncating(url, segs) ==
    IF Len(segs) < 2 THEN Err(Error_InvalidContentUrl(url))
    ELSE Ok(ContentId_Code(segs[2]))

\* The Some("d") arm: segs is the whole list, segs[1] = "d".
ParseContentUrl(url, segs) ==
    IF Len(segs) < 2 THEN Err(Error_InvalidContentUrl(url))
    ELSE IF Len(segs) >= 3 THEN Err(Error_InvalidContentUrl(url))
    ELSE Ok(ContentId_Code(segs[2]))

\* A slip: the check of the trailing segment is missing and the link
\* carries the URL cut down to its file name.
ParseDownloadUrlLoose(url, segs) ==
    IF Len(segs) < 2 THEN Err(Error_InvalidDownloadUrl(url))
    ELSE IF ~Uuid_parse_str(segs[2]).ok THEN Err(Error_InvalidDownloadUrl(url))
    ELSE IF Len(segs) < 3 THEN Err(Error_InvalidDownloadUrl(url))
    ELSE Ok(ContentId_DownloadUrl([url EXCEPT !.path = <<"/">> \o segs[3]],
                                  segs[3]))

\* The Some("download") arm: segs is the whole list, segs[1] = "download".
ParseDownloadUrl(url, segs) ==
    IF Len(segs) < 2 THEN Err(Error_InvalidDownloadUrl(url))
    ELSE IF ~Uuid_parse_str(segs[2]).ok THEN Err(Error_InvalidDownloadUrl(url))
    ELSE IF Len(segs) < 3 THEN Err(Error_InvalidDownloadUrl(url))
    ELSE IF Len(segs) >= 4 THEN Err(Error_InvalidDownloadUrl(url))
    ELSE Ok(ContentId_DownloadUrl(url, segs[3]))

\* The body of `if let Ok(url) = Url::parse(..)`.
ParseUrl(url) ==
    LET ps == path_segments(url)
    IN  IF ~ps.some THEN Err(Error_InvalidUrl(url))
        ELSE IF Head(ps.segs) = <<"d">> THEN ParseContentUrl(url, ps.segs)
        ELSE IF Head(ps.segs) = <<"d","o","w","n","l","o","a","d">>
             THEN ParseDownloadUrl(url, ps.segs)
        ELSE Err(Error_InvalidUrl(url))

\* A slip: the URL is tried before the identifier.
parse_content_id_UrlFirst(content_id_str) ==
    LET uuid == Uuid_parse_str(content_id_str)
        url == Url_parse(content_id_str)
    IN  IF url.ok THEN ParseUrl(url.url)
        ELSE IF uuid.ok THEN Ok(ContentId_Uuid(uuid.uuid))
        ELSE Ok(ContentId_Code(content_id_str))

\* A slip: a string that is no identifier and no URL is refused.
parse_content_id_NoFallback(content_id_str) ==
    LET uuid == Uuid_parse_str(content_id_str)
        url == Url_parse(content_id_str)
    IN  IF uuid.ok THEN Ok(ContentId_Uuid(uuid.uuid))
        ELSE IF url.ok THEN ParseUrl(url.url)
        ELSE Err(Error_InvalidUrl(None))

parse_content_id(content_id_str) ==
    LET uuid == Uuid_parse_str(content_id_str)
        url == Url_parse(content_id_str)
    IN  IF uuid.ok THEN Ok(ContentId_Uuid(uuid.uuid))
        ELSE IF url.ok THEN ParseUrl(url.url)
        ELSE Ok(ContentId_Code(content_id_str))

(***************************************************************************)
(*             The digest: md5::Context and md5::Digest                    *)
(***************************************************************************)
\* The bytes of the model.
Bytes == {1, 2}

\* The digest is modelled as a 16-bit rolling hash: like MD5 it is computed
\* incrementally, depends on every byte and on their order, and is finalized
\* once. (The 128 bits of MD5 are out of reach of a finite check.)
DigestModulus == 256 * 256

\* md5::Context::new
Md5_new == 7

\* md5::Context::consume
RECURSIVE Md5_consume(_, _)
Md5_consume(cx, bytes) ==
    IF bytes = <<>> THEN cx
    ELSE Md5_consume((cx * 31 + Head(bytes)) % DigestModulus, Tail(bytes))

\* md5::Context::compute
Md5_compute(cx) == (cx * 17 + 3) % DigestModulus

\* The digest of a whole byte sequence (md5::compute).
Md5Of(bytes) == Md5_compute(Md5_consume(Md5_new, bytes))

HexChars == <<"0","1","2","3","4","5","6","7","8","9","a","b","c","d","e","f">>

\* format!("{:x}", digest): every byte of the digest as two hex digits.
Hex(d) == <<HexChars[((d \div 4096) % 16) + 1], HexChars[((d \div 256) % 16) + 1],
            HexChars[((d \div 16) % 16) + 1], HexChars[(d % 16) + 1]>>

\* No digest returned (yet): no value of the digest space.
NoDigest == 0 - 1

(***************************************************************************)
(*              The remote service and the file system                     *)
(***************************************************************************)
Links == {"link1", "link2"}
Names == {"a.bin", "b.bin"}

\* The byte sequences of at most n bytes.
BytesUpTo(n) == UNION {[1..k -> Bytes] : k \in 0..n}

\* The bodies a server may send.
Bodies == BytesUpTo(MaxBody)

\* The checksums the service declares: those of two bodies.
DeclaredMd5 == {Md5Of(<<>>), Md5Of(<<1, 2>>)}

FileChild == [kind : {"File"}, name : Names, link : Links, md5 : DeclaredMd5]
FolderChild == [kind : {"Folder"}, name : {"sub"}]
Children == FileChild \cup FolderChild

\* Option<HashMap<Uuid, Content>>, as the sequence the iteration yields.
ChildLists == UNION {[1..n -> Children] : n \in 0..MaxChildren}
OptContents == {[some |-> FALSE, items |-> <<>>]}
                 \cup {[some |-> TRUE, items |-> l] : l \in ChildLists}

\* What the API may return for an identifier or a code.
Contents ==
    {[kind |-> "File", name |-> n] : n \in Names}
    \cup {[kind |-> "Folder", name |-> "top", contents |-> c] : c \in OptContents}

ContentIds ==
    {[variant |-> "DownloadUrl", url |-> l, filename |-> n] : l \in Links, n \in Names}
    \cup {[variant |-> "Uuid"], [variant |-> "Code"]}

NoFile == [exists |-> FALSE, data |-> <<>>]

\* tokio::fs::File with no operation in flight. Otherwise `busy` holds, `todo`
\* is what the blocking write has still to store and `err` tells that it
\* ended with an error.
IdleFile == [busy |-> FALSE, todo |-> <<>>, err |-> FALSE]
NoCur == [url |-> "", filename |-> ""]

Unit == [tag |-> "Ok", val |-> "()"]
Error_(kind, msg) == Err([kind |-> kind, msg |-> msg])

\* The state of the download task before it runs (and in the resolver's
\* specification, where it does not run).
DownloadIdle ==
    /\ token_env = "present"
    /\ content_id = [variant |-> "Code"]
    /\ content = None
    /\ pc = "idle"
    /\ idx = 0
    /\ cur = NoCur
    /\ stream = <<>>
    /\ buf = <<>>
    /\ md5_cx = Md5_new
    /\ writer = IdleFile
    /\ accepted = <<>>
    /\ digest = NoDigest
    /\ fs = [n \in Names |-> NoFile]
    /\ result = None
    /\ started = <<>>
    /\ served = <<>>
    /\ digests = <<>>
    /\ verified = {}
    /\ in_flight = 0
    /\ cause = "none"

(***************************************************************************)
(*          The resolver as a state machine: one call per input            *)
(***************************************************************************)
InitResolve ==
    /\ input \in Inputs
    /\ rpc = "call"
    /\ parsed = None
    /\ DownloadIdle

\* clap's value_parser calls parse_content_id on the argument.
Resolve ==
    /\ rpc = "call"
    /\ parsed' = parse_content_id(Flatten(input))
    /\ rpc' = "done"
    /\ UNCHANGED <<input, dvars>>

NextResolve == Resolve

SpecResolve == InitResolve /\ [][NextResolve]_vars

(***************************************************************************)
(*     download, download_all_child_contents, download_impl, Md5Filter     *)
(***************************************************************************)
InitDownload ==
    /\ input = <<"">>
    /\ rpc = "done"
    /\ parsed = None
    /\ token_env \in {"present", "NotPresent", "NotUnicode"}
    /\ content_id \in ContentIds
    /\ content = None
    /\ pc = "download"
    /\ idx = 0
    /\ cur = NoCur
    /\ stream = <<>>
    /\ buf = <<>>
    /\ md5_cx = Md5_new
    /\ writer = IdleFile
    /\ accepted = <<>>
    /\ digest = NoDigest
    /\ fs = [n \in Names |-> NoFile]
    /\ result = None
    /\ started = <<>>
    /\ served = <<>>
    /\ digests = <<>>
    /\ verified = {}
    /\ in_flight = 0
    /\ cause = "none"

\* The task returns r from download.
Return(r) ==
    /\ result' = r
    /\ pc' = "done"

\* download_impl is called with (url, filename).
CallDownloadImpl(url, filename) ==
    /\ cur' = [url |-> url, filename |-> filename]
    /\ started' = Append(started, [url |-> url, filename |-> filename])
    /\ in_flight' = in_flight + 1
    /\ digest' = NoDigest
    /\ cause' = "none"
    /\ pc' = "send"

\* download_impl returns Err(e), which `?` hands on to the caller of download.
FailDownloadImpl(e, why) ==
    /\ Return(e)
    /\ cause' = why
    /\ in_flight' = in_flight - 1

\* get_token, From<VarError>
get_token ==
    IF token_env = "present" THEN Unit
    ELSE IF token_env = "NotPresent" THEN Error_("TokenNotPresent", <<>>)
    ELSE Error_("TokenNotUnicode", <<>>)

\* download, up to its first await.
Download ==
    /\ pc = "download"
    /\ IF get_token.tag = "Err"
       THEN /\ Return(get_token)
            /\ UNCHANGED <<cur, started, in_flight, digest, cause>>
       ELSE IF content_id.variant = "DownloadUrl"
       THEN /\ CallDownloadImpl(content_id.url, content_id.filename)
            /\ UNCHANGED result
       ELSE /\ pc' = "get_content"
            /\ UNCHANGED <<result, cur, started, in_flight, digest, cause>>
    /\ UNCHANGED <<rvars, writer, accepted, token_env, content_id, content,
                   idx, stream, buf, md5_cx, fs, served, digests, verified>>

\* api.get_content_by_id / get_content_by_code: an error of the API, or a
\* content.
ApiGetContent ==
    /\ pc = "get_content"
    /\ \/ /\ Return(Error_("GoFileApiError", <<>>))
          /\ UNCHANGED content
       \/ /\ content' \in Contents
          /\ pc' = "download_all_child_contents"
          /\ UNCHANGED result
    /\ UNCHANGED <<rvars, writer, accepted, token_env, content_id, idx, cur,
                   stream, buf, md5_cx, digest, fs, started, served, digests,
                   verified, in_flight, cause>>

\* A slip: an empty collection is not looked for, and the loop runs no time.
EntryChecksNoLen(c) ==
    IF c.kind # "Folder" THEN Error_("InvalidTopLevelFile", <<c.name>>)
    ELSE IF ~c.contents.some THEN Error_("NoContent", <<>>)
    ELSE Unit

\* download_all_child_contents before its loop: Ok when the loop is entered.
EntryChecks(c) ==
    IF c.kind # "Folder" THEN Error_("InvalidTopLevelFile", <<c.name>>)
    ELSE IF ~c.contents.some THEN Error_("NoContent", <<>>)
    ELSE IF 0 = Len(c.contents.items) THEN Error_("NoContent", <<>>)
    ELSE Unit

download_all_child_contents ==
    /\ pc = "download_all_child_contents"
    /\ IF EntryChecks(content).tag = "Err"
       THEN /\ Return(EntryChecks(content))
            /\ UNCHANGED idx
       ELSE /\ pc' = "for"
            /\ idx' = 1
            /\ UNCHANGED result
    /\ UNCHANGED <<rvars, writer, accepted, token_env, content_id, content,
                   cur, stream, buf, md5_cx, digest, fs, started, served,
                   digests, verified, in_flight, cause>>

\* The children the loop iterates over.
Items == IF content # None /\ content.kind = "Folder"
         THEN content.contents.items ELSE <<>>

\* The head of the loop: the end of the iteration, a folder child, or the
\* call of download_impl for a file child.
ForChild ==
    /\ pc = "for"
    /\ IF idx > Len(Items)
       THEN /\ Return(Unit)
            /\ UNCHANGED <<cur, started, in_flight, digest, cause>>
       ELSE IF Items[idx].kind # "File"
       THEN /\ Return(Error_("NotImplementedForSubdir", <<>>))
            /\ UNCHANGED <<cur, started, in_flight, digest, cause>>
       ELSE /\ CallDownloadImpl(Items[idx].link, Items[idx].name)
            /\ UNCHANGED result
    /\ UNCHANGED <<rvars, writer, accepted, token_env, content_id, content,
                   idx, stream, buf, md5_cx, fs, served, digests, verified>>

\* client.get(url).send().await?: a reqwest error, or a response whose body
\* will be streamed.
SendRequest ==
    /\ pc = "send"
    /\ \/ /\ FailDownloadImpl(Error_("HttpRequestError", <<>>), "send")
          /\ UNCHANGED <<stream, served>>
       \/ \E body \in Bodies :
             /\ stream' = body
             /\ served' = Append(served, body)
             /\ pc' = "create"
             /\ UNCHANGED <<result, cause, in_flight>>
    /\ UNCHANGED <<rvars, writer, accepted, token_env, content_id, content,
                   idx, cur, buf, md5_cx, digest, fs, started, digests,
                   verified>>

\* A slip: the file is opened without being truncated.
File_create_keeping(files, filename) ==
    [files EXCEPT ![filename] = [exists |-> TRUE, data |-> files[filename].data]]

\* File::create: the file exists and is empty.
File_create(files, filename) ==
    [files EXCEPT ![filename] = [exists |-> TRUE, data |-> <<>>]]

\* File::create(filename).await, Md5Filter::new
CreateFile ==
    /\ pc = "create"
    /\ \/ /\ FailDownloadImpl(Error_("FileCouldntBeCreated", <<>>), "create")
          /\ UNCHANGED <<fs, md5_cx, buf, writer, accepted>>
       \/ /\ fs' = File_create(fs, cur.filename)
          /\ md5_cx' = Md5_new
          /\ buf' = <<>>
          /\ writer' = IdleFile
          /\ accepted' = <<>>
          /\ pc' = "copy"
          /\ UNCHANGED <<result, cause, in_flight>>
    /\ UNCHANGED <<rvars, token_env, content_id, content, idx, cur, stream,
                   digest, started, served, digests, verified>>

\* futures::io::copy with its buffer empty: the next chunk of the body is
\* read (of any size), or reading it fails and copy returns the error.
ReadChunk ==
    /\ pc = "copy"
    /\ buf = <<>>
    /\ \/ \E n \in 1..Len(stream) :
             /\ buf' = SubSeq(stream, 1, n)
             /\ stream' = SubSeq(stream, n + 1, Len(stream))
             /\ UNCHANGED <<result, pc, cause, in_flight>>
       \/ /\ FailDownloadImpl(Error_("FileCouldntBeWritten", <<>>), "body")
          /\ UNCHANGED <<buf, stream>>
    /\ UNCHANGED <<rvars, writer, accepted, token_env, content_id, content,
                   idx, cur, md5_cx, digest, fs, started, served, digests,
                   verified>>

\* A slip: the whole buffer is fed to the accumulator.
Md5Filter_consumed_whole(buffer, size) == buffer

\* Md5Filter::poll_write: the bytes fed to the accumulator when the wrapped
\* writer accepted `size` bytes of the buffer.
Md5Filter_consumed(buffer, size) == SubSeq(buffer, 1, size)

\* The operation of the file that is in flight has ended, or there is none:
\* poll_write and poll_flush return Pending until then.
File_ready(f) == ~f.busy \/ f.todo = <<>> \/ f.err

\* futures::io::copy with bytes in its buffer: Md5Filter::poll_write over
\* tokio::fs::File::poll_write. The file first collects the result of the
\* write in flight and returns its error if it failed. Otherwise it copies
\* `size` bytes of the buffer into its own, hands them to a blocking write and
\* returns Ok(size) before any of them is stored; the filter feeds these
\* bytes to the accumulator.
PollWrite ==
    /\ pc = "copy"
    /\ buf # <<>>
    /\ File_ready(writer)
    /\ IF writer.err
       THEN /\ FailDownloadImpl(Error_("FileCouldntBeWritten", <<>>), "write")
            /\ writer' = IdleFile
            /\ UNCHANGED <<md5_cx, buf, accepted>>
       ELSE \E size \in 1..Len(buf) :
               /\ writer' = [busy |-> TRUE, todo |-> SubSeq(buf, 1, size),
                           err |-> FALSE]
               /\ accepted' = accepted \o SubSeq(buf, 1, size)
               /\ md5_cx' = Md5_consume(md5_cx, Md5Filter_consumed(buf, size))
               /\ buf' = SubSeq(buf, size + 1, Len(buf))
               /\ UNCHANGED <<result, pc, cause, in_flight>>
    /\ UNCHANGED <<rvars, token_env, content_id, content, idx, cur, stream,
                   digest, fs, started, served, digests, verified>>

\* The blocking write tokio::fs::File::poll_write spawned (write_all on the
\* std file), running beside the task: it stores some more of the bytes it
\* was handed, or fails and leaves the rest unwritten. The error waits in the
\* file for the next poll_write or poll_flush.
BlockingWrite ==
    /\ writer.busy
    /\ writer.todo # <<>>
    /\ ~writer.err
    /\ \/ \E n \in 1..Len(writer.todo) :
             /\ fs' = [fs EXCEPT ![cur.filename].data =
                                     @ \o SubSeq(writer.todo, 1, n)]
             /\ writer' = [writer EXCEPT !.todo = SubSeq(@, n + 1, Len(@))]
       \/ /\ writer' = [writer EXCEPT !.err = TRUE]
          /\ UNCHANGED fs
    /\ UNCHANGED <<rvars, token_env, content_id, content, pc, idx, cur, stream,
                   buf, md5_cx, accepted, digest, result, started, served,
                   digests, verified, in_flight, cause>>

\* futures::io::copy at the end of the body: poll_flush waits for the write
\* in flight and returns its result. On an error copy returns it; otherwise
\* download_impl returns the digest. For a direct link download drops it and
\* returns Ok(()).
EndOfBody ==
    /\ pc = "copy"
    /\ buf = <<>>
    /\ stream = <<>>
    /\ File_ready(writer)
    /\ writer' = IdleFile
    /\ IF writer.err
       THEN /\ FailDownloadImpl(Error_("FileCouldntBeWritten", <<>>), "write")
            /\ UNCHANGED <<digest, digests>>
       ELSE /\ digest' = Md5_compute(md5_cx)
            /\ digests' = Append(digests, Md5_compute(md5_cx))
            /\ in_flight' = in_flight - 1
            /\ UNCHANGED cause
            /\ IF content_id.variant = "DownloadUrl"
               THEN Return(Unit)
               ELSE pc' = "check" /\ UNCHANGED result
    /\ UNCHANGED <<rvars, token_env, content_id, content, idx, cur, stream,
                   buf, md5_cx, accepted, fs, started, served, verified>>

\* A slip: the two digests are not compared.
CheckDigestSkipped(md5, d) == Unit

\* if md5 != digest.0 { return Err(Md5DigestMismatched(..)) }
CheckDigest(md5, d) ==
    IF md5 # d
    THEN Error_("Md5DigestMismatched", Hex(md5) \o <<" ", "!", "=", " ">> \o Hex(d))
    ELSE Unit

\* A slip: the error of a child is kept and the loop goes on.
VerifyChildGoingOn ==
    /\ pc = "check"
    /\ IF CheckDigest(Items[idx].md5, digest).tag = "Err"
       THEN /\ result' = CheckDigest(Items[idx].md5, digest)
            /\ UNCHANGED verified
       ELSE /\ verified' = verified \cup {idx}
            /\ UNCHANGED result
    /\ pc' = "for"
    /\ idx' = idx + 1
    /\ UNCHANGED <<rvars, writer, accepted, token_env, content_id, content,
                   cur, stream, buf, md5_cx, digest, fs, started, served,
                   digests, in_flight, cause>>

\* The comparison after download_impl returned, and the step of the loop.
VerifyChild ==
    /\ pc = "check"
    /\ IF CheckDigest(Items[idx].md5, digest).tag = "Err"
       THEN /\ Return(CheckDigest(Items[idx].md5, digest))
            /\ UNCHANGED <<idx, verified>>
       ELSE /\ pc' = "for"
            /\ idx' = idx + 1
            /\ verified' = verified \cup {idx}
            /\ UNCHANGED result
    /\ UNCHANGED <<rvars, writer, accepted, token_env, content_id, content,
                   cur, stream, buf, md5_cx, digest, fs, started, served,
                   digests, in_flight, cause>>

NextDownload ==
    \/ Download
    \/ ApiGetContent
    \/ download_all_child_contents
    \/ ForChild
    \/ SendRequest
    \/ CreateFile
    \/ ReadChunk
    \/ PollWrite
    \/ BlockingWrite
    \/ EndOfBody
    \/ VerifyChild

SpecDownload == InitDownload /\ [][NextDownload]_vars

(***************************************************************************)
(*                   Properties of the resolver                            *)
(***************************************************************************)
InputStr == Flatten(input)
InputIsUuid == Uuid_parse_str(InputStr).ok
InputIsUrl == Url_parse(InputStr).ok
InputUrl == Url_parse(InputStr).url
\* The path segments of an input that is a URL with a path starting in "/".
SegsOf(r) == IF r.ok THEN path_segments(r.url).segs ELSE <<>>
InputSegs == SegsOf(Url_parse(InputStr))
Variants == {"DownloadUrl", "Uuid", "Code"}
Rejections == {"InvalidUrl", "InvalidContentUrl", "InvalidDownloadUrl"}

\* C6, as stated: parse_content_id never fails; every input string yields
\* one of the variants DownloadUrl (DirectLink), Uuid (UniqueId) or Code.
C6_NeverFails ==
    rpc = "done" => parsed.tag = "Ok" /\ parsed.val.variant \in Variants

\* C6, amended: every input string yields exactly one outcome, which is one
\* of the three variants or, only for an input that is no identifier and
\* parses as a URL, one of the rejections InvalidUrl, InvalidContentUrl,
\* InvalidDownloadUrl; an input that is neither an identifier nor a
\* parseable URL yields Code of the input, verbatim.
C6_TotalUpToUrlRejections ==
    rpc = "done" =>
        /\ \/ parsed.tag = "Ok" /\ parsed.val.variant \in Variants
           \/ /\ parsed.tag = "Err"
              /\ parsed.err.kind \in Rejections
              /\ ~InputIsUuid
              /\ InputIsUrl
              /\ parsed.err.url = InputUrl
        /\ (~InputIsUuid /\ ~InputIsUrl) =>
               parsed = Ok(ContentId_Code(InputStr))

\* A URL was rejected.
C6_Witness ==
    /\ rpc = "done"
    /\ parsed.tag = "Err"
    /\ parsed.err.kind = "InvalidUrl"
    /\ InputIsUrl

\* C7: an input that parses as a 128-bit identifier resolves to Uuid, also
\* when the same string parses as a URL.
C7_UuidFirst ==
    (rpc = "done" /\ InputIsUuid) =>
        parsed = Ok(ContentId_Uuid(Uuid_parse_str(InputStr).uuid))

\* An identifier that is a URL too (urn:uuid:...) was resolved to Uuid.
C7_Witness ==
    /\ rpc = "done"
    /\ InputIsUuid
    /\ InputIsUrl
    /\ parsed.tag = "Ok"
    /\ parsed.val.variant = "Uuid"

\* C8: for a URL (no identifier) whose first path segment is "download",
\* the result is DownloadUrl with the parsed URL as a whole and the third
\* segment as file name exactly when the second segment is an identifier
\* and there are exactly three segments; else it is InvalidDownloadUrl.
\* The segments are those of the path of the parsed URL, that is after the
\* parser has removed dot segments and percent-encoded the characters.
C8_DownloadUrl ==
    (/\ rpc = "done"
     /\ ~InputIsUuid
     /\ InputSegs # <<>>
     /\ InputSegs[1] = <<"d","o","w","n","l","o","a","d">>) =>
        IF Len(InputSegs) = 3 /\ Uuid_parse_str(InputSegs[2]).ok
        THEN parsed = Ok(ContentId_DownloadUrl(InputUrl, InputSegs[3]))
        ELSE parsed = Err(Error_InvalidDownloadUrl(InputUrl))

\* A direct link with a port, an upper-case identifier and a non-empty
\* file name was resolved.
C8_Witness ==
    /\ rpc = "done"
    /\ parsed.tag = "Ok"
    /\ parsed.val.variant = "DownloadUrl"
    /\ parsed.val.filename = <<"a","b","c">>
    /\ parsed.val.url.host = <<"g","o","f","i","l","e",".","i","o">>
    /\ parsed.val.url.port = 80
    /\ InputSegs[2] = Chars("D290F1EE-6C54-4B01-90E6-D701748F0851")

\* C9: for a URL (no identifier) whose first path segment is "d", the
\* result is Code of the second segment exactly when the path has exactly
\* two segments; else it is InvalidContentUrl.  The segments are those
\* of the path of the parsed URL.
C9_ContentUrl ==
    (/\ rpc = "done"
     /\ ~InputIsUuid
     /\ InputSegs # <<>>
     /\ InputSegs[1] = <<"d">>) =>
        IF Len(InputSegs) = 2
        THEN parsed = Ok(ContentId_Code(InputSegs[2]))
        ELSE parsed = Err(Error_InvalidContentUrl(InputUrl))

\* A content URL with a trailing segment was rejected.
C9_Witness ==
    /\ rpc = "done"
    /\ InputIsUrl
    /\ Len(InputSegs) = 3
    /\ InputSegs[1] = <<"d">>
    /\ parsed.tag = "Err"
    /\ parsed.err.kind = "InvalidContentUrl"

(***************************************************************************)
(*                Properties of the folder download                        *)
(***************************************************************************)
FolderWalk == content_id.variant # "DownloadUrl"
ErrKind(r) == IF r.tag = "Err" THEN r.err.kind ELSE "none"
FileOf(k) == fs[Items[k].name]

\* C1: when the digest a child's transfer returned differs from the child's
\* declared checksum, the operation fails with Md5DigestMismatched carrying
\* the expected and the actual digest in hex; so it returns Ok only if every
\* child's digest equalled its declared checksum.
C1_MismatchFails ==
    FolderWalk =>
        /\ \A k \in 1..Len(digests) :
              (digests[k] # Items[k].md5 /\ pc # "check") =>
                  result = Error_("Md5DigestMismatched",
                                  Hex(Items[k].md5) \o <<" ", "!", "=", " ">>
                                      \o Hex(digests[k]))
        /\ result = Unit =>
              /\ Len(digests) = Len(Items)
              /\ \A k \in 1..Len(Items) : digests[k] = Items[k].md5

\* The second child's digest differed and the operation failed on it.
C1_Witness ==
    /\ pc = "done"
    /\ ErrKind(result) = "Md5DigestMismatched"
    /\ Len(digests) = 2
    /\ digests[2] # Items[2].md5

\* C2: the transfer of child k starts only after every earlier child was
\* transferred and verified; after a failing child no later transfer is
\* started (a failed child is never verified); never two transfers at once.
C2_Sequential ==
    /\ in_flight \in {0, 1}
    /\ FolderWalk =>
          /\ \A k \in 1..Len(started) :
                /\ started[k] = [url |-> Items[k].link, filename |-> Items[k].name]
                /\ \A j \in 1..(k - 1) :
                      /\ j \in verified
                      /\ digests[j] = Items[j].md5
          /\ result # None => in_flight = 0

\* The second child's transfer is in progress, the first one verified.
C2_Witness ==
    /\ FolderWalk
    /\ Len(started) = 2
    /\ verified = {1}
    /\ in_flight = 1
    /\ pc = "copy"

\* s is an initial part of t.
IsPrefix(s, t) == Len(s) <= Len(t) /\ s = SubSeq(t, 1, Len(s))

\* C3: while copying, the accumulator has consumed exactly the bytes the file
\* reported as accepted, in order, whatever the chunks of the body and the
\* sizes of the writes, and the file holds no byte but those (it may hold
\* fewer: a byte is stored after it is accepted). The digest download_impl
\* returns is the digest of the accepted bytes, which then are the contents
\* of the file and the body the server sent.
C3_DigestOfFile ==
    /\ pc = "copy" =>
          /\ md5_cx = Md5_consume(Md5_new, accepted)
          /\ IsPrefix(fs[cur.filename].data, accepted)
    /\ digest # NoDigest =>
          /\ digest = Md5Of(accepted)
          /\ fs[cur.filename].data = accepted
          /\ accepted = served[Len(served)]

\* A transfer of a body of two bytes returned its digest after the file had
\* accepted and stored them.
C3_Witness ==
    /\ digest # NoDigest
    /\ Len(accepted) >= 2
    /\ fs[cur.filename].data = accepted

\* Every child was transferred and its digest equals its declared checksum.
AllMatch ==
    /\ Len(digests) = Len(Items)
    /\ \A k \in 1..Len(Items) : digests[k] = Items[k].md5

\* C4, as stated: a folder download whose children all match succeeds and
\* leaves one file per child, named after the child and holding its bytes,
\* also when children share a name.
C4_OneFilePerChild ==
    (pc = "done" /\ FolderWalk /\ Items # <<>> /\ AllMatch) =>
        /\ result = Unit
        /\ Cardinality({n \in Names : fs[n].exists}) = Len(Items)
        /\ \A k \in 1..Len(Items) :
              FileOf(k).exists /\ FileOf(k).data = served[k]

\* C4, amended: such a download leaves one file per distinct file name of
\* the children, and the file a child names holds the bytes of the last
\* child, in enumeration order, that names this file.
C4_LastWriteWins ==
    (pc = "done" /\ FolderWalk /\ Items # <<>> /\ AllMatch) =>
        /\ result = Unit
        /\ {n \in Names : fs[n].exists} = {Items[k].name : k \in 1..Len(Items)}
        /\ \A k \in 1..Len(Items) :
              (\A j \in (k + 1)..Len(Items) : Items[j].name # Items[k].name) =>
                  FileOf(k).exists /\ FileOf(k).data = served[k]

\* Two children of one name and different bytes were downloaded.
C4_Witness ==
    /\ pc = "done"
    /\ FolderWalk
    /\ AllMatch
    /\ result = Unit
    /\ Len(Items) = 2
    /\ Items[1].name = Items[2].name
    /\ served[1] # served[2]

\* C5: an error of the GET (sending the request, reading a chunk of the
\* body) is reported as HttpRequestError and an error writing the file as
\* FileCouldntBeWritten, never both under one kind; after a write failure
\* no digest is returned.
C5_DistinctKinds ==
    /\ cause \in {"send", "body"} => ErrKind(result) = "HttpRequestError"
    /\ cause = "write" =>
          ErrKind(result) = "FileCouldntBeWritten" /\ digest = NoDigest

\* C10: when the content is a folder whose children are absent or empty,
\* download_all_child_contents fails with NoContent, in both cases.
C10_NoContent ==
    (/\ pc \notin {"download", "get_content", "download_all_child_contents"}
     /\ content # None
     /\ content.kind = "Folder"
     /\ (~content.contents.some \/ content.contents.items = <<>>)) =>
        /\ pc = "done"
        /\ result = Error_("NoContent", <<>>)
        /\ started = <<>>

\* A folder with an empty collection of children was refused.
C10_Witness ==
    /\ pc = "done"
    /\ content # None
    /\ content.kind = "Folder"
    /\ content.contents.some
    /\ content.contents.items = <<>>
    /\ ErrKind(result) = "NoContent"

=============================================================================
